---- MODULE Spec2Model ----
(***************************************************************************)
(* Model of src/main.py: the push-triggered worker that moves one article  *)
(* from the staging collection to the final collection.                    *)
(*                                                                         *)
(* An invocation is one run of handle_pubsub_message.  The Firestore       *)
(* transaction started by firestore.transactional is modelled as: two      *)
(* snapshot reads (lines 91-92), a write buffer filled by trans.set /      *)
(* trans.delete (lines 94, 98, 99) and a commit that applies the buffer    *)
(* atomically, or raises Aborted when a document read by the transaction   *)
(* was written since it was read.  Every store round trip may also fail    *)
(* with any error class.  One call of integrate() is one "attempt".        *)
(* Strings are sequences of one-character strings, so that strip(), len(), *)
(* `in` and startswith() are computed.                                     *)
(***************************************************************************)
EXTENDS Integers, Sequences, FiniteSets, TLC

\* ---------------------------------------------------------------- bounds
NumInvocations == 2     \* invocations (deliveries of a trigger) in one run
MaxFaults == 3          \* store failures in a run where the store fails finitely often

\* ------------------------------------------------------ program constants
MaxTries == 3           \* backoff max_tries
MaxIdLen == 100         \* longest accepted documentId

Procs == 1..NumInvocations

\* ----------------------------------------------------------- identifiers
Whitespace == {" ", "\t"}

RECURSIVE LStrip(_)
LStrip(s) == IF s # <<>> /\ Head(s) \in Whitespace THEN LStrip(Tail(s)) ELSE s

RECURSIVE RStrip(_)
RStrip(s) ==
    IF s # <<>> /\ s[Len(s)] \in Whitespace THEN RStrip(SubSeq(s, 1, Len(s) - 1)) ELSE s

\* str.strip()
Strip(s) == RStrip(LStrip(s))

\* '/' in s
Contains(s, c) == \E i \in 1..Len(s) : s[i] = c

\* s.startswith(prefix)
StartsWith(s, prefix) ==
    /\ Len(s) >= Len(prefix)
    /\ SubSeq(s, 1, Len(prefix)) = prefix

Chars(n, c) == [i \in 1..n |-> c]

\* A documentId as json.loads delivers it: JSON null, a number or a string.
NullId == [type |-> "null", num |-> 0, str |-> <<>>]
NumId(n) == [type |-> "number", num |-> n, str |-> <<>>]
StrId(s) == [type |-> "str", num |-> 0, str |-> s]

\* Python truthiness of a documentId value: `not doc_id`
Truthy(raw) ==
    CASE raw.type = "null" -> FALSE
      [] raw.type = "number" -> raw.num # 0
      [] OTHER -> raw.str # <<>>

\* validate_document_id without the check for '/'.
validate_document_id_no_slash(raw) ==
    IF ~Truthy(raw) \/ raw.type # "str"
    THEN [ok |-> FALSE, id |-> <<>>]
    ELSE LET stripped_id == Strip(raw.str) IN
         IF stripped_id = <<>> \/ Len(stripped_id) > MaxIdLen
         THEN [ok |-> FALSE, id |-> <<>>]
         ELSE IF StartsWith(stripped_id, <<"_", "_">>)
         THEN [ok |-> FALSE, id |-> <<>>]
         ELSE [ok |-> TRUE, id |-> stripped_id]

\* validate_document_id returning doc_id instead of stripped_id.
validate_document_id_unstripped(raw) ==
    IF ~Truthy(raw) \/ raw.type # "str"
    THEN [ok |-> FALSE, id |-> <<>>]
    ELSE LET stripped_id == Strip(raw.str) IN
         IF stripped_id = <<>> \/ Len(stripped_id) > MaxIdLen
         THEN [ok |-> FALSE, id |-> <<>>]
         ELSE IF Contains(stripped_id, "/") \/ StartsWith(stripped_id, <<"_", "_">>)
         THEN [ok |-> FALSE, id |-> <<>>]
         ELSE [ok |-> TRUE, id |-> raw.str]

\* Validator.validate_document_id: [ok |-> passed, id |-> the stripped id]
validate_document_id(raw) ==
    IF ~Truthy(raw) \/ raw.type # "str"
    THEN [ok |-> FALSE, id |-> <<>>]
    ELSE LET stripped_id == Strip(raw.str) IN
         IF stripped_id = <<>> \/ Len(stripped_id) > MaxIdLen
         THEN [ok |-> FALSE, id |-> <<>>]
         ELSE IF Contains(stripped_id, "/") \/ StartsWith(stripped_id, <<"_", "_">>)
         THEN [ok |-> FALSE, id |-> <<>>]
         ELSE [ok |-> TRUE, id |-> stripped_id]

\* The documentId values the model delivers.
RawIds ==
    { NullId, NumId(0), NumId(7),
      StrId(<<>>), StrId(<<" ">>), StrId(<<"a", "/", "b">>),
      StrId(<<"_", "_", "r">>), StrId(<<" ", "_", "_">>),
      StrId(Chars(MaxIdLen + 1, "a")), StrId(<<" ">> \o Chars(MaxIdLen, "a")),
      StrId(<<"k">>), StrId(<<" ", "k", "\t">>) }

\* The documentId values delivered where store failures are modelled.
MainIds == { StrId(<<>>), StrId(<<" ", "k", "\t">>) }

\* The key MainIds name.
HotKey == <<"k">>

\* The document keys the accepted identifiers name.
Keys == { validate_document_id(r).id : r \in { x \in RawIds : validate_document_id(x).ok } }

\* ------------------------------------------------------------- documents
Fields ==
    { "status", "queuedAt", "processingStartedAt", "processedAt", "batchId",
      "title", "integratedAt", "updatedAt" }

Missing == "<missing>"

\* DocumentStatus.PROCESSED.value
PROCESSED == "processed"

\* firestore.SERVER_TIMESTAMP
SERVER_TIMESTAMP == "SERVER_TIMESTAMP"

\* A dict literal: the fields of `given`, every other field missing.
Dict(given) == [f \in Fields |-> IF f \in DOMAIN given THEN given[f] ELSE Missing]

EmptyDict == [f \in Fields |-> Missing]

\* A document slot of a collection, and the snapshot a read returns.
NoDoc == [exists |-> FALSE, data |-> EmptyDict]
Doc(data) == [exists |-> TRUE, data |-> data]

\* dict.get(field): None when the field is missing
Get(data, field) == data[field]

\* `not doc_data` for snapshot.to_dict(): None (no document) or an empty dict
Falsy(snapshot) == ~snapshot.exists \/ snapshot.data = EmptyDict

\* The fields _prepare_final_doc removes.
TransientFields == { "status", "queuedAt", "processingStartedAt", "processedAt", "batchId" }

\* _prepare_final_doc that leaves batchId in the copy.
prepare_final_doc_keeps_batchId(data) ==
    LET popped == [f \in Fields |-> IF f \in TransientFields \ {"batchId"} THEN Missing ELSE data[f]]
    IN  [popped EXCEPT !["integratedAt"] = SERVER_TIMESTAMP,
                       !["updatedAt"] = SERVER_TIMESTAMP]

\* ArticleIntegrator._prepare_final_doc: a copy of data without the
\* transient fields and with the two timestamps set
prepare_final_doc(data) ==
    LET popped == [f \in Fields |-> IF f \in TransientFields THEN Missing ELSE data[f]]
    IN  [popped EXCEPT !["integratedAt"] = SERVER_TIMESTAMP,
                       !["updatedAt"] = SERVER_TIMESTAMP]

\* One call of _prepare_final_doc as its caller sees it: the dict object it
\* passed (argument), that object after the call (data) and the returned
\* dict (final_data), which data.copy() made a new object (line 70).
PrepareFinalDocCall(data) ==
    [pc |-> "returned", argument |-> data, data |-> data, final_data |-> prepare_final_doc(data)]

\* No call of _prepare_final_doc under observation.
NoCall == [pc |-> "none", argument |-> EmptyDict, data |-> EmptyDict, final_data |-> EmptyDict]

\* The staged field maps _prepare_final_doc is called with: every subset of
\* the fields present, with 'status' of either kind.
StagedDicts ==
    { d \in [Fields -> {Missing, "v", PROCESSED}] :
        \A f \in Fields \ {"status"} : d[f] # PROCESSED }

\* validate_document comparing the status with another value.
validate_document_wrong_status(snapshot) ==
    /\ ~Falsy(snapshot)
    /\ Get(snapshot.data, "status") = "queued"

\* Validator.validate_document: TRUE when no ValidationError is raised
validate_document(snapshot) ==
    /\ ~Falsy(snapshot)
    /\ Get(snapshot.data, "status") = PROCESSED

\* The commit time the store puts in place of SERVER_TIMESTAMP.
CommitTime(n) == "t" \o ToString(n)

\* The document the store keeps for a written dict committed at time n.
Resolve(data, n) ==
    [f \in Fields |-> IF data[f] = SERVER_TIMESTAMP THEN CommitTime(n) ELSE data[f]]

\* Staged documents an upstream producer may have left, and final documents
\* of earlier runs.
StagedProcessed == Dict([status |-> PROCESSED, batchId |-> "b1", title |-> "X"])
StagedQueued == Dict([status |-> "queued", queuedAt |-> "t0", title |-> "X"])
StagedNoStatus == Dict([title |-> "X"])
FinalOld == Dict([title |-> "Y", integratedAt |-> "t0", updatedAt |-> "t0"])

StagedInit == { NoDoc, Doc(StagedProcessed), Doc(StagedQueued), Doc(StagedNoStatus), Doc(EmptyDict) }
FinalInit == { NoDoc, Doc(FinalOld) }

\* ---------------------------------------------------------------- errors
\* The exception classes backoff.on_exception retries.
TransientErrors == { "Aborted", "DeadlineExceeded", "ServiceUnavailable" }

\* Some other exception of the store client (permission denied, internal...).
OtherError == "InternalServerError"

StoreErrors == TransientErrors \cup { OtherError }

NoError == "none"

\* ------------------------------------------------------------- responses
\* (body, status) returned by handle_pubsub_message
NoResponse == "none"
Success == "204 Success"
Skipped == "200 Skipped"
BadRequest == "400 Bad Request"
InternalError == "500 Internal Server Error"

\* The outcome of the specification's integrate() that a response stands for.
Outcome(code) ==
    CASE code = Success -> "Moved"
      [] code = Skipped -> "AlreadyMoved"
      [] code = BadRequest -> "Rejected"
      [] code = InternalError -> "Failed"
      [] OTHER -> "none"

\* The ArticleIntegrator instance: args[0] of the decorated method.
Self == <<"<ArticleIntegrator object>">>

\* A keyword argument the call does not pass.
NoField == "<absent>"
NoId == <<"<absent>">>

\* log_structured: the JSON object one call logs
log_structured(level, message, document_id, error, attempt) ==
    [severity |-> level, message |-> message, document_id |-> document_id,
     error |-> error, tries |-> attempt]

\* The write buffer of a transaction: trans.set(final_ref, ...) and
\* trans.delete(staging_ref) issued so far.
NoWrites == [set |-> FALSE, doc |-> EmptyDict, delete |-> FALSE]

VARIABLES
    staging,      \* collection staging_articles: key -> document slot
    final,        \* collection articles: key -> document slot
    clock,        \* number of commits that wrote
    pc,           \* invocation -> "idle", "readS", "readF", "commit", "done"
    raw,          \* invocation -> the documentId of its message
    docId,        \* invocation -> the validated doc_id
    tries,        \* invocation -> calls of integrate() made so far (backoff's tries)
    snapS,        \* invocation -> staging_snapshot of the running attempt
    snapF,        \* invocation -> final_snapshot of the running attempt
    wbuf,         \* invocation -> write buffer of the running transaction
    exc,          \* invocation -> exception that reached handle_pubsub_message
    response,     \* invocation -> HTTP response returned
    logs,         \* invocation -> log events it emitted, in order
    accessed,     \* history: invocation -> it made a store access of any kind
    touched,      \* history: invocation -> <<collection, key>> slots its steps changed
    injected,     \* history: invocation -> store failures other than conflicts it met
    discarded,    \* history: invocation -> its last exception rolled back issued writes
    staging0,     \* history: staging at the start of the run
    final0,       \* history: final at the start of the run
    failKind,     \* the transient class the store's failures of this run are of
    call          \* a call of _prepare_final_doc observed on its own

storeVars == <<staging, final, clock>>
procVars == <<pc, raw, docId, tries, snapS, snapF, wbuf, exc, response, logs>>
histVars == <<accessed, touched, injected, discarded, staging0, final0, failKind>>
vars == <<storeVars, procVars, histVars, call>>

\* The state after create_app(): no invocation has started.  The store holds
\* what upstream producers and earlier runs left: collections stg and fin.
InitWith(stg, fin, kinds) ==
    /\ staging = stg
    /\ final = fin
    /\ clock = 0
    /\ pc = [p \in Procs |-> "idle"]
    /\ raw = [p \in Procs |-> NullId]
    /\ docId = [p \in Procs |-> <<>>]
    /\ tries = [p \in Procs |-> 0]
    /\ snapS = [p \in Procs |-> NoDoc]
    /\ snapF = [p \in Procs |-> NoDoc]
    /\ wbuf = [p \in Procs |-> NoWrites]
    /\ exc = [p \in Procs |-> NoError]
    /\ response = [p \in Procs |-> NoResponse]
    /\ logs = [p \in Procs |-> <<>>]
    /\ accessed = [p \in Procs |-> FALSE]
    /\ touched = [p \in Procs |-> {}]
    /\ injected = [p \in Procs |-> 0]
    /\ discarded = [p \in Procs |-> FALSE]
    /\ staging0 = stg
    /\ final0 = fin
    /\ failKind \in kinds

\* Every state of the hot key's two slots; the other keys hold a processed
\* staged document each.
Init ==
    \E s \in StagedInit, f \in FinalInit :
        InitWith([k \in Keys |-> IF k = HotKey THEN s ELSE Doc(StagedProcessed)],
                 [k \in Keys |-> IF k = HotKey THEN f ELSE NoDoc],
                 TransientErrors)
    /\ call = NoCall

\* handle_pubsub_message returns: the transaction, its snapshots and its
\* write buffer are gone with the call of integrate().
Return(p, code, event) ==
    /\ response' = [response EXCEPT ![p] = code]
    /\ logs' = [logs EXCEPT ![p] = Append(@, event)]
    /\ snapS' = [snapS EXCEPT ![p] = NoDoc]
    /\ snapF' = [snapF EXCEPT ![p] = NoDoc]
    /\ wbuf' = [wbuf EXCEPT ![p] = NoWrites]
    /\ pc' = [pc EXCEPT ![p] = "done"]

\* The handler without its `except ValidationError` branch: the error falls
\* to `except Exception`.
RejectAsUnexpected(p) ==
    /\ exc' = [exc EXCEPT ![p] = "ValidationError"]
    /\ Return(p, InternalError,
              log_structured("ERROR", "unexpected error", NoId, "ValidationError", 0))

\* The handler's `except ValidationError` branch (lines 151-153).
RejectValidation(p) ==
    /\ exc' = [exc EXCEPT ![p] = "ValidationError"]
    /\ Return(p, BadRequest,
              log_structured("WARNING", "validation error", NoId, "ValidationError", 0))

\* The handler without a return in its `except Exception` branch: the
\* invocation ends with no response.
FailWithoutResponse(p, e) ==
    /\ exc' = [exc EXCEPT ![p] = e]
    /\ logs' = [logs EXCEPT ![p] = Append(@, log_structured("ERROR", "unexpected error", NoId, e, 0))]
    /\ snapS' = [snapS EXCEPT ![p] = NoDoc]
    /\ snapF' = [snapF EXCEPT ![p] = NoDoc]
    /\ wbuf' = [wbuf EXCEPT ![p] = NoWrites]
    /\ pc' = [pc EXCEPT ![p] = "done"]
    /\ UNCHANGED response

\* The handler's `except Exception` branch (lines 154-156).
FailUnexpected(p, e) ==
    /\ exc' = [exc EXCEPT ![p] = e]
    /\ Return(p, InternalError, log_structured("ERROR", "unexpected error", NoId, e, 0))

\* The handler answering 204 whatever integrate() returned.
RespondIgnoringResult(p, success) ==
    Return(p, Success, log_structured("INFO", "integrated", docId[p], NoField, 0))

\* The handler's result for the value integrate() returned (lines 144-149).
Respond(p, success) ==
    IF success
    THEN Return(p, Success, log_structured("INFO", "integrated", docId[p], NoField, 0))
    ELSE Return(p, Skipped, log_structured("INFO", "skipped", docId[p], NoField, 0))

\* One call of integrate() up to the start of its transaction (lines 86-88):
\* two collection handles and a new transaction, with nothing read or buffered.
BeginAttempt(p) ==
    /\ tries' = [tries EXCEPT ![p] = @ + 1]
    /\ snapS' = [snapS EXCEPT ![p] = NoDoc]
    /\ snapF' = [snapF EXCEPT ![p] = NoDoc]
    /\ wbuf' = [wbuf EXCEPT ![p] = NoWrites]
    /\ accessed' = [accessed EXCEPT ![p] = TRUE]
    /\ pc' = [pc EXCEPT ![p] = "readS"]

\* handle_pubsub_message up to the first call of integrate (lines 133-142).
HandlePubsubMessage(p, message) ==
    /\ pc[p] = "idle"
    /\ raw' = [raw EXCEPT ![p] = message]
    /\ LET v == validate_document_id(message) IN
       IF v.ok
       THEN /\ docId' = [docId EXCEPT ![p] = v.id]
            /\ BeginAttempt(p)
            /\ UNCHANGED <<exc, response, logs>>
       ELSE /\ RejectValidation(p)
            /\ UNCHANGED <<docId, tries, accessed>>
    /\ UNCHANGED <<storeVars, injected, discarded, staging0, final0, failKind>>

\* staging_ref.get(transaction=trans) (line 91)
ReadStaging(p) ==
    /\ pc[p] = "readS"
    /\ snapS' = [snapS EXCEPT ![p] = staging[docId[p]]]
    /\ accessed' = [accessed EXCEPT ![p] = TRUE]
    /\ pc' = [pc EXCEPT ![p] = "readF"]
    /\ UNCHANGED <<storeVars, raw, docId, tries, snapF, wbuf, exc, response, logs,
                   injected, discarded, staging0, final0, failKind>>

\* The body without trans.delete(staging_ref) after trans.set (line 99).
BodyWritesNoDelete(staging_snapshot, final_snapshot) ==
    IF final_snapshot.exists
    THEN [set |-> FALSE, doc |-> EmptyDict, delete |-> staging_snapshot.exists]
    ELSE [set |-> TRUE, doc |-> prepare_final_doc(staging_snapshot.data), delete |-> FALSE]

\* The body without trans.set(final_ref, final_doc) (line 98).
BodyWritesNoSet(staging_snapshot, final_snapshot) ==
    IF final_snapshot.exists
    THEN [set |-> FALSE, doc |-> EmptyDict, delete |-> staging_snapshot.exists]
    ELSE [set |-> FALSE, doc |-> EmptyDict, delete |-> TRUE]

\* The body without the cleanup of the stale staged copy (line 94).
BodyWritesKeepStale(staging_snapshot, final_snapshot) ==
    IF final_snapshot.exists
    THEN [set |-> FALSE, doc |-> EmptyDict, delete |-> FALSE]
    ELSE [set |-> TRUE, doc |-> prepare_final_doc(staging_snapshot.data), delete |-> TRUE]

\* The body without the `if final_snapshot.exists` branch (lines 93-95).
BodyWritesNoExistsCheck(staging_snapshot, final_snapshot) ==
    [set |-> TRUE, doc |-> prepare_final_doc(staging_snapshot.data), delete |-> TRUE]

\* The writes the transaction body issues for the two snapshots (lines 93-100).
BodyWrites(staging_snapshot, final_snapshot) ==
    IF final_snapshot.exists
    THEN [set |-> FALSE, doc |-> EmptyDict, delete |-> staging_snapshot.exists]
    ELSE [set |-> TRUE, doc |-> prepare_final_doc(staging_snapshot.data), delete |-> TRUE]

\* The body returning True on both paths.
BodyResultAlways(final_snapshot) == TRUE

\* The value the transaction body returns (lines 95, 100).
BodyResult(final_snapshot) == ~final_snapshot.exists

\* The body calling validate_document before it tests final_snapshot.exists.
BodyRaisesBeforeExists(staging_snapshot, final_snapshot) ==
    ~validate_document(staging_snapshot)

\* Whether the transaction body raises ValidationError (lines 93, 96).
BodyRaises(staging_snapshot, final_snapshot) ==
    /\ ~final_snapshot.exists
    /\ ~validate_document(staging_snapshot)

\* max_tries counted one too many.
RetriesOneMore(e, n) == e \in TransientErrors /\ n <= MaxTries

\* backoff.on_exception given Exception: every exception is retried.
RetriesAny(e, n) == n < MaxTries

\* backoff.on_exception given every store exception class.
RetriesUnclassified(e, n) == e # "ValidationError" /\ n < MaxTries

\* Whether backoff.on_exception retries after exception e on try number n
\* (lines 77-79).
Retries(e, n) == e \in TransientErrors /\ n < MaxTries

\* The on_backoff handler's event (lines 80-84): args is (self, doc_id).
BackoffEvent(args, e, n) == log_structured("WARNING", "retry", args[1], e, n)

\* backoff without an on_backoff handler.
OnBackoffSilent(p, e) == UNCHANGED logs

\* backoff calls the on_backoff handler before it sleeps and retries.
OnBackoff(p, e) ==
    logs' = [logs EXCEPT ![p] = Append(@, BackoffEvent(<<Self, docId[p]>>, e, tries[p]))]

\* An attempt of p ends with exception e (raised by the store client or by
\* the transaction body): the transaction is rolled back; backoff logs and
\* calls integrate() again, or the exception reaches the handler
\* (lines 77-84, 151-156).
Raise(p, e) ==
    /\ IF Retries(e, tries[p])
       THEN /\ OnBackoff(p, e)
            /\ BeginAttempt(p)
            /\ UNCHANGED <<exc, response, discarded>>
       ELSE /\ IF e = "ValidationError" THEN RejectValidation(p) ELSE FailUnexpected(p, e)
            /\ discarded' = [discarded EXCEPT ![p] = wbuf[p].set \/ wbuf[p].delete]
            /\ UNCHANGED <<tries, accessed>>
    /\ UNCHANGED <<storeVars, raw, docId, staging0, final0, failKind>>

\* final_ref.get(transaction=trans) and the rest of the body (lines 92-100).
ReadFinal(p) ==
    /\ pc[p] = "readF"
    /\ LET final_snapshot == final[docId[p]] IN
       IF BodyRaises(snapS[p], final_snapshot)
       THEN Raise(p, "ValidationError")
       ELSE /\ snapF' = [snapF EXCEPT ![p] = final_snapshot]
            /\ wbuf' = [wbuf EXCEPT ![p] = BodyWrites(snapS[p], final_snapshot)]
            /\ pc' = [pc EXCEPT ![p] = "commit"]
            /\ UNCHANGED <<storeVars, raw, docId, tries, snapS, exc, response, logs,
                           accessed, discarded, staging0, final0, failKind>>
    /\ UNCHANGED injected

\* The reads made without transaction=trans: the commit checks nothing.
NoConflictUnchecked(p) == TRUE

\* The store's commit check: no document the transaction read was written
\* since it was read.
NoConflict(p) ==
    /\ staging[docId[p]] = snapS[p]
    /\ final[docId[p]] = snapF[p]

\* The commit of a transaction whose staging_ref names the hot key's
\* document whatever doc_id is.
CommitFixedStagingRef(p) ==
    /\ pc[p] = "commit"
    /\ NoConflict(p)
    /\ LET k == docId[p]
           w == wbuf[p]
           now == IF w.set \/ w.delete THEN clock + 1 ELSE clock
       IN
       /\ clock' = now
       /\ final' = IF w.set THEN [final EXCEPT ![k] = Doc(Resolve(w.doc, now))] ELSE final
       /\ staging' = IF w.delete THEN [staging EXCEPT ![HotKey] = NoDoc] ELSE staging
    /\ accessed' = [accessed EXCEPT ![p] = TRUE]
    /\ Respond(p, BodyResult(snapF[p]))
    /\ UNCHANGED <<raw, docId, tries, exc, injected, discarded, staging0, final0, failKind>>

\* The commit applies the buffered writes in one step; then the handler
\* reports the result (lines 101, 142-149).
Commit(p) ==
    /\ pc[p] = "commit"
    /\ NoConflict(p)
    /\ LET k == docId[p]
           w == wbuf[p]
           now == IF w.set \/ w.delete THEN clock + 1 ELSE clock
       IN
       /\ clock' = now
       /\ final' = IF w.set THEN [final EXCEPT ![k] = Doc(Resolve(w.doc, now))] ELSE final
       /\ staging' = IF w.delete THEN [staging EXCEPT ![k] = NoDoc] ELSE staging
    /\ accessed' = [accessed EXCEPT ![p] = TRUE]
    /\ Respond(p, BodyResult(snapF[p]))
    /\ UNCHANGED <<raw, docId, tries, exc, injected, discarded, staging0, final0, failKind>>

\* The commit meets a conflicting write: the store raises Aborted.
CommitConflict(p) ==
    /\ pc[p] = "commit"
    /\ ~NoConflict(p)
    /\ Raise(p, "Aborted")
    /\ UNCHANGED injected

\* The exception classes a failing round trip raises in this run.
Failures == { failKind, OtherError }

\* A store round trip of the transaction (a read or the commit) fails.
StoreFault(p, e) ==
    /\ pc[p] \in {"readS", "readF", "commit"}
    /\ injected' = [injected EXCEPT ![p] = @ + 1]
    /\ Raise(p, e)

\* The slots of the two collections that differ between this state and the next.
Changed ==
    IF staging' = staging /\ final' = final
    THEN {}
    ELSE { <<"staging", k>> : k \in { x \in Keys : staging'[x] # staging[x] } }
           \cup { <<"final", k>> : k \in { x \in Keys : final'[x] # final[x] } }

\* The history of what invocation p's step changed.
Touch(p) ==
    /\ touched' = [touched EXCEPT ![p] = @ \cup Changed]
    /\ UNCHANGED call

Receive(p) == (\E message \in MainIds : HandlePubsubMessage(p, message)) /\ Touch(p)
ReadS(p) == ReadStaging(p) /\ Touch(p)
ReadF(p) == ReadFinal(p) /\ Touch(p)
CommitOk(p) == Commit(p) /\ Touch(p)
Conflict(p) == CommitConflict(p) /\ Touch(p)
Fault(p) == (\E e \in Failures : StoreFault(p, e)) /\ Touch(p)

\* Concurrent deliveries for the hot key against a store that may fail.
Next ==
    \E p \in Procs :
        \/ Receive(p)
        \/ ReadS(p)
        \/ ReadF(p)
        \/ CommitOk(p)
        \/ Conflict(p)
        \/ Fault(p)

Spec == Init /\ [][Next]_vars

\* ------------------------------------------------- sequential deliveries
\* Every state of every key's two slots.
InitSeq ==
    \E stg \in [Keys -> StagedInit], fin \in [Keys -> FinalInit] :
        InitWith(stg, fin, {"Aborted"})
    /\ call = NoCall

\* Invocation p runs when the invocations before it have returned.
Turn(p) == \A q \in Procs : q < p => pc[q] = "done"

ReceiveAny(p) == (\E message \in RawIds : HandlePubsubMessage(p, message)) /\ Touch(p)

SeqReceive(p) == Turn(p) /\ ReceiveAny(p)
SeqReadS(p) == Turn(p) /\ ReadS(p)
SeqReadF(p) == Turn(p) /\ ReadF(p)
SeqCommit(p) == Turn(p) /\ CommitOk(p)

\* Deliveries of any documentId, handled one after the other against a store
\* that does not fail.
NextSeq ==
    \E p \in Procs :
        \/ SeqReceive(p)
        \/ SeqReadS(p)
        \/ SeqReadF(p)
        \/ SeqCommit(p)

SpecSeq == InitSeq /\ [][NextSeq]_vars

\* --------------------------------------------------------- several keys
\* The documentId values of the triggers of two keys.
KeyIds == { StrId(<<" ", "k", "\t">>), StrId(<<" ">> \o Chars(MaxIdLen, "a")) }

\* Every key holds a processed staged document and no final one.  A failing
\* round trip raises DeadlineExceeded or an unclassified error, so that
\* Aborted is raised by conflicts only.
InitKeys ==
    /\ InitWith([k \in Keys |-> Doc(StagedProcessed)], [k \in Keys |-> NoDoc],
                {"DeadlineExceeded"})
    /\ call = NoCall

KeysReceive(p) == (\E message \in KeyIds : HandlePubsubMessage(p, message)) /\ Touch(p)

\* Concurrent deliveries of triggers of several keys against a store that
\* may fail.
NextKeys ==
    \E p \in Procs :
        \/ KeysReceive(p)
        \/ ReadS(p)
        \/ ReadF(p)
        \/ CommitOk(p)
        \/ Conflict(p)
        \/ Fault(p)

SpecKeys == InitKeys /\ [][NextKeys]_vars

\* ------------------------------------------------ invocations that run on
\* The hot key holds a staged document, processed or not, and no final one.
InitFair ==
    /\ \E s \in {Doc(StagedProcessed), Doc(StagedQueued)} :
          InitWith([k \in Keys |-> IF k = HotKey THEN s ELSE Doc(StagedProcessed)],
                   [k \in Keys |-> NoDoc],
                   {"DeadlineExceeded"})
    /\ call = NoCall

\* The next step of the code of an invocation that has started.
Continue(p) ==
    \/ ReadS(p)
    \/ ReadF(p)
    \/ CommitOk(p)
    \/ Conflict(p)

\* Concurrent deliveries against a store that may fail at every round trip.
\* While invocations are running, one of them takes the next step of its
\* code: the threads of the server do not all stop.
SpecFair == InitFair /\ [][Next]_vars /\ WF_vars(\E p \in Procs : Continue(p))

\* --------------------------------------------------------- redelivery
\* The hot key is eligible: a processed staged document, no final one.
InitLive ==
    /\ InitWith([k \in Keys |-> Doc(StagedProcessed)], [k \in Keys |-> NoDoc],
                {"ServiceUnavailable"})
    /\ call = NoCall

\* A trigger for the hot key is delivered.
LiveReceive(p) == HandlePubsubMessage(p, StrId(<<" ", "k", "\t">>)) /\ Touch(p)

\* The store failures of the run so far.
RECURSIVE Faults(_)
Faults(n) == IF n = 0 THEN 0 ELSE injected[n] + Faults(n - 1)

\* The store fails transiently; it does so MaxFaults times at most in a run.
LiveFault(p) ==
    /\ Faults(NumInvocations) < MaxFaults
    /\ StoreFault(p, failKind)
    /\ Touch(p)

\* The push subscription delivers again a trigger whose invocation answered
\* 500 (line 156): a new invocation, which starts from nothing.
Redeliver(p) ==
    /\ pc[p] = "done"
    /\ response[p] = InternalError
    /\ pc' = [pc EXCEPT ![p] = "idle"]
    /\ raw' = [raw EXCEPT ![p] = NullId]
    /\ docId' = [docId EXCEPT ![p] = <<>>]
    /\ tries' = [tries EXCEPT ![p] = 0]
    /\ exc' = [exc EXCEPT ![p] = NoError]
    /\ response' = [response EXCEPT ![p] = NoResponse]
    /\ logs' = [logs EXCEPT ![p] = <<>>]
    /\ accessed' = [accessed EXCEPT ![p] = FALSE]
    /\ discarded' = [discarded EXCEPT ![p] = FALSE]
    /\ UNCHANGED <<storeVars, snapS, snapF, wbuf, touched, injected, staging0, final0,
                   failKind, call>>

\* Concurrent deliveries of the trigger of the hot key, delivered again after
\* every 500, against a store that fails finitely often.
NextLive ==
    \E p \in Procs :
        \/ LiveReceive(p)
        \/ ReadS(p)
        \/ ReadF(p)
        \/ CommitOk(p)
        \/ Conflict(p)
        \/ LiveFault(p)
        \/ Redeliver(p)

\* A step of invocation p that is not a failure of the store: the delivery
\* of its trigger, the next step of its code, or the repeated delivery.  The
\* position of p enables one of them at most.
Progress(p) ==
    \/ LiveReceive(p)
    \/ ReadS(p)
    \/ ReadF(p)
    \/ CommitOk(p)
    \/ Conflict(p)
    \/ Redeliver(p)

\* Every trigger is delivered, an invocation that can take a step of its
\* code does take one, and a trigger answered 500 is delivered again.  The
\* store is not obliged to fail.
Fairness == \A p \in Procs : WF_vars(Progress(p))

SpecLive == InitLive /\ [][NextLive]_vars /\ Fairness

\* ------------------------------------------------- _prepare_final_doc
\* A caller holding any staged field map, before it calls _prepare_final_doc.
InitPrepare ==
    /\ InitWith([k \in Keys |-> NoDoc], [k \in Keys |-> NoDoc], {"Aborted"})
    /\ \E d \in StagedDicts :
          call = [pc |-> "ready", argument |-> d, data |-> d, final_data |-> EmptyDict]

\* The call of _prepare_final_doc returns (lines 69-74).
PrepareFinalDoc ==
    /\ call.pc = "ready"
    /\ call' = PrepareFinalDocCall(call.argument)
    /\ UNCHANGED <<storeVars, procVars, histVars>>

NextPrepare == PrepareFinalDoc

SpecPrepare == InitPrepare /\ [][NextPrepare]_vars

\* ================================================================ claims
Done(p) == pc[p] = "done"

\* integrate() was called for key k by invocation p.
Integrates(p, k) == tries[p] >= 1 /\ docId[p] = k

\* At the start of the run k has a staged document with status 'processed'
\* and no final document.
Eligible0(k) ==
    /\ staging0[k].exists
    /\ staging0[k].data["status"] = "processed"
    /\ ~final0[k].exists

\* The invocations whose steps wrote the final document of k.
FinalWriters(k) == { r \in Procs : <<"final", k>> \in touched[r] }

\* The retry events among the events of a log.
RetryEvents(log) == { i \in 1..Len(log) : log[i].message = "retry" }

\* C1: sequential idempotency.  When the first two invocations for an
\* eligible key k run one after the other against a store that does not fail,
\* the first reports Moved (204 Success) and the second AlreadyMoved (200
\* Skipped); k then has a final document, written once, and no staged one.
C1_SequentialIdempotency ==
    \A p, q \in Procs, k \in Keys :
        ( /\ p < q
          /\ Done(p) /\ Done(q)
          /\ Eligible0(k)
          /\ Integrates(p, k) /\ Integrates(q, k)
          /\ \A r \in Procs : (r < q /\ r # p) => ~Integrates(r, k) )
        => /\ response[p] = Success
           /\ response[q] = Skipped
           /\ final[k].exists
           /\ ~staging[k].exists
           /\ FinalWriters(k) = {p}

C1_Witness ==
    \E p, q \in Procs :
        /\ p < q /\ Done(p) /\ Done(q)
        /\ Eligible0(HotKey)
        /\ Integrates(p, HotKey) /\ Integrates(q, HotKey)
        /\ response[p] = Success /\ response[q] = Skipped

\* C2: concurrent duplicate.  When two invocations for the same eligible key
\* have both returned, in any interleaving, and met no store failure other
\* than commit conflicts, each reported Moved or AlreadyMoved, k has a final
\* document and no staged one, and exactly one committed transaction wrote
\* the final document.
C2_ConcurrentDuplicate ==
    \A p, q \in Procs, k \in Keys :
        ( /\ p # q
          /\ Done(p) /\ Done(q)
          /\ Eligible0(k)
          /\ Integrates(p, k) /\ Integrates(q, k)
          /\ injected[p] = 0 /\ injected[q] = 0 )
        => /\ response[p] \in {Success, Skipped}
           /\ response[q] \in {Success, Skipped}
           /\ final[k].exists
           /\ ~staging[k].exists
           /\ Cardinality(FinalWriters(k)) = 1

\* Both invocations ran concurrently: one of them lost the commit race, was
\* aborted and tried again.
C2_Witness ==
    \E p, q \in Procs :
        /\ p # q /\ Done(p) /\ Done(q)
        /\ Eligible0(HotKey)
        /\ Integrates(p, HotKey) /\ Integrates(q, HotKey)
        /\ injected[p] = 0 /\ injected[q] = 0
        /\ tries[q] = 2
        /\ response[p] = Success /\ response[q] = Skipped

\* Invocation p takes a step that ends its running attempt.
EndsAttempt(p) == pc[p] \in {"readS", "readF", "commit"} /\ (pc'[p] = "done" \/ tries'[p] # tries[p])

\* C3: atomicity.  An attempt that issued the write of the final document
\* and the deletion of the staged one ends either with both applied (and
\* Moved reported) or with both collections exactly as they were; and no
\* step at all writes a final document without deleting, in the same step,
\* the staged document of the same key.
C3_Atomicity ==
    [][ /\ \A p \in Procs :
             (pc[p] = "commit" /\ wbuf[p].set /\ EndsAttempt(p)) =>
                LET k == docId[p] IN
                \/ /\ response'[p] = Success
                   /\ final' = [final EXCEPT ![k] = Doc(Resolve(wbuf[p].doc, clock'))]
                   /\ staging' = [staging EXCEPT ![k] = NoDoc]
                \/ /\ response'[p] # Success
                   /\ final' = final
                   /\ staging' = staging
        /\ \A k \in Keys :
             final'[k] # final[k] => (staging[k].exists /\ ~staging'[k].exists)
      ]_vars

\* An attempt failed with the write and the delete issued, and both
\* collections are as they were at the start.
C3_Witness ==
    \E p \in Procs :
        /\ Done(p)
        /\ tries[p] >= 1
        /\ Eligible0(docId[p])
        /\ exc[p] \in StoreErrors
        /\ discarded[p]
        /\ staging = staging0
        /\ final = final0

\* C4: no loss.  A staged document disappears only in the step in which an
\* invocation for its key commits, and a final document for the key exists
\* after that step; so a key that had a staged document at the start always
\* has a document in one of the two collections.
C4_NoLoss ==
    [][ \A k \in Keys :
          /\ (staging[k].exists /\ ~staging'[k].exists) =>
                /\ final'[k].exists
                /\ \E p \in Procs :
                      /\ pc[p] = "commit" /\ docId[p] = k
                      /\ pc'[p] = "done" /\ response'[p] \in {Success, Skipped}
          /\ staging0[k].exists => (staging'[k].exists \/ final'[k].exists)
      ]_vars

\* The staged document was moved by an invocation that had to retry after a
\* store failure.
C4_Witness ==
    \E p \in Procs :
        /\ Done(p)
        /\ tries[p] >= 2 /\ injected[p] >= 1
        /\ response[p] = Success
        /\ staging0[docId[p]].exists
        /\ ~staging[docId[p]].exists
        /\ final[docId[p]].exists

\* C5: retry exhaustion.  No invocation calls integrate() more than 3 times;
\* an invocation that ends with a transient error made exactly 3 attempts,
\* reports Failed (500) and changed nothing in either collection: when it is
\* the only invocation that ran, both collections are as at the start.
C5_RetryExhaustion ==
    \A p \in Procs :
        /\ tries[p] <= 3
        /\ (Done(p) /\ exc[p] \in TransientErrors) =>
              /\ tries[p] = 3
              /\ response[p] = InternalError
              /\ touched[p] = {}
              /\ (\A q \in Procs \ {p} : pc[q] = "idle") =>
                    (staging = staging0 /\ final = final0)

\* All three attempts of an invocation failed with a transient error raised
\* by the store.
C5_Witness ==
    \E p \in Procs :
        /\ Done(p)
        /\ exc[p] \in TransientErrors
        /\ injected[p] = 3
        /\ \A q \in Procs \ {p} : pc[q] = "idle"

\* C6: retry success.  An invocation for an eligible key that no other
\* invocation works on, whose attempts 1 and 2 failed with a transient error
\* and whose attempt 3 committed, reports Moved; the final document exists,
\* the staged one is gone, and its log holds exactly 2 retry events, for
\* tries 1 and 2.
C6_RetrySuccess ==
    \A p \in Procs, k \in Keys :
        ( /\ Done(p)
          /\ Integrates(p, k)
          /\ Eligible0(k)
          /\ \A q \in Procs \ {p} : ~Integrates(q, k)
          /\ tries[p] = 3
          /\ exc[p] = NoError )
        => /\ response[p] = Success
           /\ final[k].exists
           /\ ~staging[k].exists
           /\ Cardinality(RetryEvents(logs[p])) = 2
           /\ { logs[p][i].tries : i \in RetryEvents(logs[p]) } = {1, 2}
           /\ \A i \in RetryEvents(logs[p]) : logs[p][i].error \in TransientErrors

C6_Witness ==
    \E p \in Procs :
        /\ Done(p)
        /\ Integrates(p, HotKey)
        /\ Eligible0(HotKey)
        /\ \A q \in Procs \ {p} : ~Integrates(q, HotKey)
        /\ tries[p] = 3
        /\ response[p] = Success

\* The identifiers C7 names: a string that is empty, all whitespace, longer
\* than 100 characters once trimmed, holds a '/', or starts with '__' once
\* trimmed.
Malformed(r) ==
    /\ r.type = "str"
    /\ \/ r.str = <<>>
       \/ \A i \in 1..Len(r.str) : r.str[i] \in Whitespace
       \/ Len(Strip(r.str)) > 100
       \/ \E i \in 1..Len(r.str) : r.str[i] = "/"
       \/ (Len(Strip(r.str)) >= 2 /\ Strip(r.str)[1] = "_" /\ Strip(r.str)[2] = "_")

\* C7: validation gate.  An invocation whose documentId is malformed has
\* returned Rejected (400) in its first step, never called integrate(), made
\* no store access and changed no slot of either collection.
C7_ValidationGate ==
    \A p \in Procs :
        (pc[p] # "idle" /\ Malformed(raw[p])) =>
            /\ Done(p)
            /\ response[p] = BadRequest
            /\ tries[p] = 0
            /\ ~accessed[p]
            /\ touched[p] = {}
            /\ (\A q \in Procs \ {p} : ~accessed[q]) => (staging = staging0 /\ final = final0)

\* An identifier of 101 characters was rejected.
C7_Witness ==
    \E p \in Procs :
        /\ Done(p)
        /\ raw[p].type = "str" /\ Len(raw[p].str) = 101
        /\ response[p] = BadRequest
        /\ ~accessed[p]

\* C8: state gate.  The first invocation for a key k that had no final
\* document at the start, against a store that does not fail, is Rejected
\* (400) after exactly one call of integrate() and leaves both slots of k as
\* they were when k had no staged document or one whose status is not
\* 'processed'; it reports Moved when the status is 'processed'.
C8_StateGate ==
    \A p \in Procs, k \in Keys :
        ( /\ Done(p)
          /\ Integrates(p, k)
          /\ \A q \in Procs : q < p => ~Integrates(q, k)
          /\ ~final0[k].exists )
        => IF staging0[k].exists /\ staging0[k].data["status"] = "processed"
           THEN /\ response[p] = Success
                /\ tries[p] = 1
           ELSE /\ response[p] = BadRequest
                /\ tries[p] = 1
                /\ touched[p] = {}
                /\ staging[k] = staging0[k]
                /\ final[k] = final0[k]

\* A staged document with status 'queued' was rejected.
C8_Witness ==
    \E p \in Procs :
        /\ Done(p)
        /\ Integrates(p, HotKey)
        /\ \A q \in Procs : q < p => ~Integrates(q, HotKey)
        /\ ~final0[HotKey].exists
        /\ staging0[HotKey].exists
        /\ staging0[HotKey].data["status"] = "queued"
        /\ response[p] = BadRequest

\* C9: idempotent cleanup.  A commit of a transaction that read an existing
\* final document reports AlreadyMoved (200), leaves the final collection as
\* it was, and leaves no staged document for the key; no other staged
\* document changes.
C9_IdempotentCleanup ==
    [][ \A p \in Procs :
          ( /\ pc[p] = "commit"
            /\ snapF[p].exists
            /\ pc'[p] = "done"
            /\ exc'[p] = NoError )
          => /\ response'[p] = Skipped
             /\ final' = final
             /\ staging' = [staging EXCEPT ![docId[p]] = NoDoc]
      ]_vars

\* A stale staged copy was deleted by an invocation that reported
\* AlreadyMoved, and the final document is the one of the start.
C9_Witness ==
    \E p \in Procs :
        /\ Done(p)
        /\ response[p] = Skipped
        /\ touched[p] = { <<"staging", docId[p]>> }
        /\ final0[docId[p]].exists
        /\ final = final0

\* C10 as stated: the result of an invocation that exhausted its retries
\* differs from the result of every invocation that ended with a
\* non-transient failure (a validation rejection or an unclassified error).
C10_ExhaustionDistinctFromNonTransient ==
    \A p, q \in Procs :
        ( /\ Done(p) /\ exc[p] \in TransientErrors
          /\ Done(q) /\ exc[q] \in {"ValidationError", OtherError} )
        => response[p] # response[q]

\* C10 amended: the result of an invocation that exhausted its retries
\* differs from the result of a validation rejection (500 against 400), and
\* is the result an unclassified error gives (both 500).
C10_ExhaustionDistinctFromRejection ==
    \A p, q \in Procs :
        (Done(p) /\ exc[p] \in TransientErrors /\ Done(q)) =>
            /\ exc[q] = "ValidationError" => response[p] # response[q]
            /\ exc[q] = OtherError => response[p] = response[q]

\* One invocation exhausted its retries, another was rejected inside the
\* transaction body.
C10_Witness ==
    \E p, q \in Procs :
        /\ Done(p) /\ exc[p] \in TransientErrors /\ tries[p] = 3
        /\ Done(q) /\ exc[q] = "ValidationError" /\ tries[q] >= 1

\* The last event of invocation p's log in the next state.
LastEvent(p) == logs'[p][Len(logs'[p])]

\* C11: unclassified errors are not retried.  A store failure after which
\* the invocation makes another attempt was one of the three transient
\* classes; the step in which an attempt fails with an unclassified error
\* ends the invocation with Failed (500), starts no attempt and changes
\* neither collection, and the invocation never changed a slot.
C11_UnclassifiedNotRetried ==
    [][ \A p \in Procs :
          /\ (injected'[p] # injected[p] /\ pc'[p] # "done") =>
                /\ tries'[p] = tries[p] + 1
                /\ Len(logs'[p]) = Len(logs[p]) + 1
                /\ LastEvent(p).message = "retry"
                /\ LastEvent(p).error \in TransientErrors
          /\ (exc[p] = NoError /\ exc'[p] = OtherError) =>
                /\ pc'[p] = "done"
                /\ response'[p] = InternalError
                /\ tries'[p] = tries[p]
                /\ staging' = staging /\ final' = final
                /\ touched'[p] = {}
      ]_vars

\* The second attempt of an invocation for an eligible key failed with an
\* unclassified error at its commit, after a transient failure of the first.
C11_Witness ==
    \E p \in Procs :
        /\ Done(p)
        /\ exc[p] = OtherError
        /\ tries[p] = 2
        /\ discarded[p]
        /\ Eligible0(docId[p])
        /\ response[p] = InternalError
        /\ staging = staging0 /\ final = final0

\* The fields present in a dict.
KeysOf(d) == { f \in Fields : d[f] # Missing }

\* C12: field transform.  The dict _prepare_final_doc returns for a staged
\* field map has the staged keys minus the five transient ones plus
\* integratedAt and updatedAt; every other retained key keeps its staged
\* value; both timestamps hold SERVER_TIMESTAMP; and the dict that was passed
\* is as it was before the call.
C12_FieldTransform ==
    call.pc = "returned" =>
        /\ KeysOf(call.final_data) =
              (KeysOf(call.argument)
                 \ {"status", "queuedAt", "processingStartedAt", "processedAt", "batchId"})
              \cup {"integratedAt", "updatedAt"}
        /\ \A f \in KeysOf(call.final_data) \ {"integratedAt", "updatedAt"} :
              call.final_data[f] = call.argument[f]
        /\ call.final_data["integratedAt"] = SERVER_TIMESTAMP
        /\ call.final_data["updatedAt"] = SERVER_TIMESTAMP
        /\ call.data = call.argument

\* The example of the specification: {status: processed, batchId, title}.
C12_Witness ==
    /\ call.pc = "returned"
    /\ KeysOf(call.argument) = {"status", "batchId", "title"}
    /\ call.argument["status"] = "processed"
    /\ KeysOf(call.final_data) = {"title", "integratedAt", "updatedAt"}
    /\ call.final_data["title"] = call.argument["title"]

\* The identifiers C13 accepts: a string that, once trimmed, is non-empty,
\* has at most 100 characters, holds no '/' and does not start with '__'.
WellFormed(r) ==
    /\ r.type = "str"
    /\ LET trimmed == Strip(r.str) IN
       /\ Len(trimmed) >= 1
       /\ Len(trimmed) <= 100
       /\ \A i \in 1..Len(trimmed) : trimmed[i] # "/"
       /\ ~(Len(trimmed) >= 2 /\ trimmed[1] = "_" /\ trimmed[2] = "_")

\* C13: identifier validation result.  An invocation passes the validation
\* of its documentId exactly when the identifier is well formed; integrate()
\* is then called with the trimmed string, every read of the invocation
\* returns the slot of that key, and only the slots of that key are written.
\* Any other identifier is rejected (400) and integrate() is not called.
C13_IdentifierValidation ==
    [][ \A p \in Procs :
          pc'[p] # "idle" =>
            IF WellFormed(raw'[p])
            THEN LET k == Strip(raw'[p].str) IN
                 /\ tries'[p] >= 1
                 /\ docId'[p] = k
                 /\ (pc[p] = "readS" /\ pc'[p] = "readF") => snapS'[p] = staging[k]
                 /\ (pc[p] = "readF" /\ pc'[p] = "commit") => snapF'[p] = final[k]
                 /\ touched'[p] \subseteq { <<"staging", k>>, <<"final", k>> }
            ELSE /\ tries'[p] = 0
                 /\ response'[p] = BadRequest
                 /\ ~accessed'[p]
      ]_vars

\* An identifier of 101 characters that is 100 characters long once trimmed
\* was accepted and the document of the trimmed key was moved.
C13_Witness ==
    \E p \in Procs :
        /\ Done(p)
        /\ Len(raw[p].str) = 101
        /\ Len(docId[p]) = 100
        /\ response[p] = Success
        /\ touched[p] = { <<"staging", Strip(raw[p].str)>>, <<"final", Strip(raw[p].str)>> }

\* C14: FinalRecord immutability.  No step of any invocation, in any
\* interleaving and with any store failures and retries, changes or deletes
\* a final document that exists.
C14_FinalImmutable ==
    [][ \A k \in Keys : final[k].exists => final'[k] = final[k] ]_vars

\* One invocation moved the document; another one for the same key, which
\* met a store failure and tried again, committed after it; the final
\* document is there.
C14_Witness ==
    \E p, q \in Procs :
        /\ p # q /\ Done(p) /\ Done(q)
        /\ docId[q] = docId[p]
        /\ response[p] = Success
        /\ injected[q] >= 1 /\ tries[q] >= 2
        /\ response[q] = Skipped
        /\ final[docId[p]].exists

\* C15: convergence under redelivery.  With the hot key eligible, its
\* trigger delivered to every invocation (concurrently), delivered again
\* whenever an invocation ends Failed, and a store that fails finitely often,
\* the system reaches and then stays in the state where the final document
\* of the key exists and the staged one does not.
C15_Convergence ==
    <>[](final[HotKey].exists /\ ~staging[HotKey].exists)

\* A trigger met MaxFaults store failures, so one of its invocations ended
\* Failed and it was delivered again; its last invocation moved the
\* document, and a concurrent duplicate that lost the commit reported
\* AlreadyMoved.
C15_Witness ==
    \E p, q \in Procs :
        /\ p # q /\ Done(p) /\ Done(q)
        /\ injected[p] = MaxFaults
        /\ response[p] = Success
        /\ response[q] = Skipped /\ tries[q] >= 2
        /\ final[HotKey].exists /\ ~staging[HotKey].exists

\* C16: termination with a single outcome.  No invocation makes more than 3
\* attempts; an invocation has a response exactly when it has returned, the
\* response stands for one of Moved, AlreadyMoved, Rejected, Failed and never
\* changes afterwards; and, whatever the store does, from some point on no
\* invocation is between its start and its return: as a returned invocation
\* stays returned, every invocation that started has returned.
C16_Termination ==
    /\ [](\A p \in Procs :
            /\ tries[p] <= 3
            /\ Done(p) <=> response[p] # NoResponse
            /\ Done(p) => Outcome(response[p]) \in {"Moved", "AlreadyMoved", "Rejected", "Failed"})
    /\ [][ \A p \in Procs : Done(p) => (pc'[p] = "done" /\ response'[p] = response[p]) ]_vars
    /\ <>[](\A p \in Procs : pc[p] \in {"idle", "done"})

\* The invocations of one run ended with different outcomes, one of them
\* Failed after 3 attempts and one rejected for its identifier.
C16_Witness ==
    \E p, q \in Procs :
        /\ Done(p) /\ Done(q)
        /\ tries[p] = 3 /\ Outcome(response[p]) = "Failed"
        /\ tries[q] = 0 /\ Outcome(response[q]) = "Rejected"

\* C17: retry-log content.  Every retry event of an invocation for key k is
\* a warning that carries the number of the attempt that failed, the
\* transient error that caused the retry, and k, the document identifier
\* passed to integrate(), as its document_id.
C17_RetryLogContent ==
    \A p \in Procs :
        /\ Cardinality(RetryEvents(logs[p])) = (IF tries[p] = 0 THEN 0 ELSE tries[p] - 1)
        /\ \A i \in RetryEvents(logs[p]) :
              /\ logs[p][i].severity = "WARNING"
              /\ logs[p][i].tries = Cardinality({ j \in RetryEvents(logs[p]) : j <= i })
              /\ logs[p][i].error \in TransientErrors
              /\ logs[p][i].document_id = docId[p]

\* A retry was logged for the hot key, and the document_id of the event is
\* the ArticleIntegrator instance, args[0] of the decorated method.
C17_Witness ==
    \E p \in Procs :
        /\ docId[p] = HotKey
        /\ tries[p] = 2
        /\ RetryEvents(logs[p]) = {1}
        /\ logs[p][1].tries = 1
        /\ logs[p][1].error \in TransientErrors
        /\ logs[p][1].document_id = Self

\* C18: a stale staged copy is deleted whatever its state.  The first
\* invocation for a key k that had, at the start, a final document and a
\* staged document whose status is not 'processed' reports AlreadyMoved (200)
\* after one attempt, not Rejected; the staged document is gone and the final
\* document is the one of the start.
C18_StaleCopyDeleted ==
    \A p \in Procs, k \in Keys :
        ( /\ Done(p)
          /\ Integrates(p, k)
          /\ \A q \in Procs : q < p => ~Integrates(q, k)
          /\ final0[k].exists
          /\ staging0[k].exists
          /\ staging0[k].data["status"] # "processed" )
        => /\ response[p] = Skipped
           /\ tries[p] = 1
           /\ ~staging[k].exists
           /\ final[k] = final0[k]
           /\ touched[p] = { <<"staging", k>> }

\* A staged document with status 'queued', whose fields differ from the
\* final document's, was deleted by an invocation that reported AlreadyMoved.
C18_Witness ==
    \E p \in Procs :
        /\ Done(p)
        /\ Integrates(p, HotKey)
        /\ final0[HotKey].exists
        /\ staging0[HotKey] = Doc(StagedQueued)
        /\ staging0[HotKey].data["title"] # final0[HotKey].data["title"]
        /\ response[p] = Skipped
        /\ ~staging[HotKey].exists

\* The invocations for key k that returned after a commit with the response.
Reported(k, code) ==
    { p \in Procs : Done(p) /\ Integrates(p, k) /\ exc[p] = NoError /\ response[p] = code }

\* C19: at most one Moved per key.  Among the invocations for a key, run
\* one after the other or concurrently, with any store failures and retries,
\* at most one reports Moved (204); every other invocation that returned
\* after a commit reports AlreadyMoved (200); and none reports Moved when the
\* key had a final document at the start.
C19_AtMostOneMoved ==
    \A k \in Keys :
        /\ Cardinality(Reported(k, Success)) <= 1
        /\ \A p \in Procs :
              (Done(p) /\ Integrates(p, k) /\ exc[p] = NoError) =>
                  p \in Reported(k, Success) \cup Reported(k, Skipped)
        /\ final0[k].exists => Reported(k, Success) = {}

\* One invocation moved the document on a retry after a store failure; a
\* concurrent one lost the commit, tried again and reported AlreadyMoved.
C19_Witness ==
    \E p, q \in Procs :
        /\ p \in Reported(HotKey, Success)
        /\ injected[p] >= 1
        /\ q \in Reported(HotKey, Skipped)
        /\ injected[q] = 0 /\ tries[q] >= 2

\* The errors invocation p met: those of its retry events and the one that
\* ended it.
ErrorsMet(p) == { logs[p][i].error : i \in RetryEvents(logs[p]) } \cup { exc[p] }

\* C20: per-key frame.  A step of an invocation for key k reads the slots of
\* k and leaves the slots of every other key, in both collections, as they
\* were; over all its attempts the invocation changed slots of k only; and
\* an invocation whose key no other invocation works on never meets a
\* conflict (Aborted), whatever the invocations for other keys do.
C20_PerKeyFrame ==
    /\ [][ \A p \in Procs :
              (pc'[p] # pc[p] \/ tries'[p] # tries[p]) =>
                 /\ \A k \in Keys \ {docId'[p]} :
                       staging'[k] = staging[k] /\ final'[k] = final[k]
                 /\ (pc[p] = "readS" /\ pc'[p] = "readF") => snapS'[p] = staging[docId[p]]
                 /\ (pc[p] = "readF" /\ pc'[p] = "commit") => snapF'[p] = final[docId[p]]
          ]_vars
    /\ [](\A p \in Procs :
            tries[p] >= 1 =>
               /\ touched[p] \subseteq { <<"staging", docId[p]>>, <<"final", docId[p]>> }
               /\ (\A q \in Procs \ {p} : docId[q] # docId[p]) => "Aborted" \notin ErrorsMet(p))

\* Two invocations for different keys ran concurrently: each moved the
\* document of its key in one attempt, the second committing while the first
\* was between its reads and its commit.
C20_Witness ==
    \E p, q \in Procs :
        /\ docId[p] = HotKey
        /\ tries[q] = 1 /\ docId[q] # HotKey
        /\ pc[p] = "commit" /\ tries[p] = 1
        /\ response[q] = Success
        /\ touched[q] = { <<"staging", docId[q]>>, <<"final", docId[q]>> }
        /\ wbuf[p].set

====
